---------------------------- MODULE Spec2Model ----------------------------
(***************************************************************************)
(* Model of src/script.js: the CPF class (constructor, onlyDigits,         *)
(* cleaned, isAllSame, calculateVerifierDigit, calculateCheckDigits,       *)
(* isValid, format, isFormatted) and a caller that builds one CPF from an  *)
(* input value and calls its methods, or calls the static helpers.         *)
(*                                                                         *)
(* A JavaScript string is a sequence of one-character strings.  A          *)
(* JavaScript value is a record [kind, s, n, b]: kind names the type, and  *)
(* s, n, b carry a string's characters, a number's value, a boolean.       *)
(***************************************************************************)
EXTENDS Integers, Sequences, FiniteSets

(***************************************************************************)
(* Bounds of the model.                                                    *)
(***************************************************************************)
\* longest free-form input string (over Alphabet)
MaxLen == 3
\* longest digit string handed to calculateVerifierDigit directly
MaxDigitsLen == 13
\* numbers given as input values range over -MaxNum..MaxNum
MaxNum == 2

(***************************************************************************)
(* JavaScript values.                                                      *)
(***************************************************************************)
JsStr(s) == [kind |-> "string", s |-> s, n |-> 0, b |-> FALSE]
JsNum(n) == [kind |-> "number", s |-> <<>>, n |-> n, b |-> FALSE]
JsBool(b) == [kind |-> "boolean", s |-> <<>>, n |-> 0, b |-> b]
JsNaN == [kind |-> "NaN", s |-> <<>>, n |-> 0, b |-> FALSE]
JsNull == [kind |-> "null", s |-> <<>>, n |-> 0, b |-> FALSE]
JsUndefined == [kind |-> "undefined", s |-> <<>>, n |-> 0, b |-> FALSE]
\* an object with no usable toString/valueOf, e.g. Object.create(null)
JsBareObject == [kind |-> "object", s |-> <<>>, n |-> 0, b |-> FALSE]

DigitChars == <<"0", "1", "2", "3", "4", "5", "6", "7", "8", "9">>

\* the regular-expression class \d (and [0-9]): JavaScript's \d is ASCII only
IsDigitChar(c) == \E i \in 1..10 : DigitChars[i] = c

DigitValue(c) == (CHOOSE i \in 1..10 : DigitChars[i] = c) - 1

\* ToBoolean, as the || of `value || ''` applies it
Truthy(v) ==
    CASE v.kind = "string" -> v.s # <<>>
      [] v.kind = "number" -> v.n # 0
      [] v.kind = "boolean" -> v.b
      [] v.kind = "object" -> TRUE
      [] OTHER -> FALSE

\* String(v) throws a TypeError: the object cannot be converted to a primitive
StringThrows(v) == v.kind = "object"

RECURSIVE NatToString(_)
NatToString(n) ==
    IF n < 10 THEN <<DigitChars[n + 1]>>
    ELSE NatToString(n \div 10) \o <<DigitChars[(n % 10) + 1]>>

\* String(v) for a value it can convert
String(v) ==
    CASE v.kind = "string" -> v.s
      [] v.kind = "number" ->
           IF v.n < 0 THEN <<"-">> \o NatToString(-v.n) ELSE NatToString(v.n)
      [] v.kind = "boolean" ->
           IF v.b THEN <<"t", "r", "u", "e">> ELSE <<"f", "a", "l", "s", "e">>
      [] v.kind = "NaN" -> <<"N", "a", "N">>
      [] v.kind = "null" -> <<"n", "u", "l", "l">>
      [] v.kind = "undefined" -> <<"u", "n", "d", "e", "f", "i", "n", "e", "d">>

\* Number(c) of a one-character string: a digit's value; white space is 0;
\* anything else is NaN
NumberOfChar(c) ==
    IF IsDigitChar(c) THEN JsNum(DigitValue(c))
    ELSE IF c \in {" ", "\t", "\n"} THEN JsNum(0)
    ELSE JsNaN

\* a % b of JavaScript: the remainder takes the sign of the dividend
JsRemainder(a, b) == IF a >= 0 THEN a % b ELSE -((-a) % b)

Min(a, b) == IF a < b THEN a ELSE b

\* s.slice(from, to) for 0 <= from and 0 <= to: both ends are clamped to the length
Slice(s, from, to) == SubSeq(s, Min(from, Len(s)) + 1, Min(to, Len(s)))

(***************************************************************************)
(* class CPF: the static methods.                                          *)
(***************************************************************************)
\* s.replace(/\D+/g, ''): every maximal run of non-digits is replaced by ''
RECURSIVE ReplaceNonDigitRuns(_)
ReplaceNonDigitRuns(s) ==
    IF s = <<>> THEN <<>>
    ELSE IF IsDigitChar(Head(s)) THEN <<Head(s)>> \o ReplaceNonDigitRuns(Tail(s))
    ELSE LET run == CHOOSE k \in 1..Len(s) :
                        /\ \A i \in 1..k : ~IsDigitChar(s[i])
                        /\ (k < Len(s) => IsDigitChar(s[k + 1]))
         IN  ReplaceNonDigitRuns(SubSeq(s, run + 1, Len(s)))

\* without the g flag only the first run is replaced
RECURSIVE ReplaceFirstNonDigitRun(_)
ReplaceFirstNonDigitRun(s) ==
    IF s = <<>> THEN <<>>
    ELSE IF IsDigitChar(Head(s)) THEN <<Head(s)>> \o ReplaceFirstNonDigitRun(Tail(s))
    ELSE LET run == CHOOSE k \in 1..Len(s) :
                        /\ \A i \in 1..k : ~IsDigitChar(s[i])
                        /\ (k < Len(s) => IsDigitChar(s[k + 1]))
         IN  SubSeq(s, run + 1, Len(s))

\* onlyDigits with a fault: the g flag is missing
onlyDigitsFirstRun(value) == ReplaceFirstNonDigitRun(String(value))

\* static onlyDigits(value), for a value String() converts
onlyDigits(value) == ReplaceNonDigitRuns(String(value))

\* isAllSame with a fault: the repetition check never fires
isAllSameNever(digits) == FALSE

\* static isAllSame(digits): false for a falsy argument, else /^([0-9])\1*$/
\* tested on the argument's string
isAllSame(digits) ==
    IF ~Truthy(digits) THEN FALSE
    ELSE LET str == String(digits)
         IN  /\ IsDigitChar(str[1])
             /\ \A i \in 2..Len(str) : str[i] = str[1]

\* the loop of calculateVerifierDigit: sum after positions i..length-1 are added
RECURSIVE SumLoop(_, _, _, _)
SumLoop(digits, factorStart, i, sum) ==
    IF ~(i < Len(digits)) THEN sum
    ELSE LET term == NumberOfChar(digits[i + 1])
         IN  IF sum.kind = "NaN" \/ term.kind = "NaN"
             THEN SumLoop(digits, factorStart, i + 1, JsNaN)
             ELSE SumLoop(digits, factorStart, i + 1,
                          JsNum(sum.n + term.n * (factorStart - i)))

\* calculateVerifierDigit with a fault: remainder < 1 in place of remainder < 2
calculateVerifierDigitOffByOne(digits, factorStart) ==
    LET sum == SumLoop(digits, factorStart, 0, JsNum(0))
    IN  IF sum.kind = "NaN" THEN JsNaN
        ELSE LET remainder == JsRemainder(sum.n, 11)
             IN  IF remainder < 1 THEN JsNum(0) ELSE JsNum(11 - remainder)

\* static calculateVerifierDigit(digits, factorStart)
calculateVerifierDigit(digits, factorStart) ==
    LET sum == SumLoop(digits, factorStart, 0, JsNum(0))
    IN  IF sum.kind = "NaN" THEN JsNaN
        ELSE LET remainder == JsRemainder(sum.n, 11)
             IN  IF remainder < 2 THEN JsNum(0) ELSE JsNum(11 - remainder)

\* calculateCheckDigits with a fault: the second digit is computed from the
\* nine digits alone, without the first check digit appended
calculateCheckDigitsNoAppend(firstNineDigits) ==
    LET d1 == calculateVerifierDigit(firstNineDigits, 10)
        d2 == calculateVerifierDigit(firstNineDigits, 11)
    IN  String(d1) \o String(d2)

\* static calculateCheckDigits(firstNineDigits)
calculateCheckDigits(firstNineDigits) ==
    LET d1 == calculateVerifierDigit(firstNineDigits, 10)
        d2 == calculateVerifierDigit(firstNineDigits \o String(d1), 11)
    IN  String(d1) \o String(d2)

(***************************************************************************)
(* class CPF: the instance methods, over the fields raw and digits.        *)
(***************************************************************************)
\* isValid with a fault: the length test accepts 11 digits or more
isValidAtLeast11(d) ==
    IF d = <<>> \/ Len(d) < 11 THEN FALSE
    ELSE IF isAllSame(JsStr(d)) THEN FALSE
    ELSE LET firstNine == Slice(d, 0, 9)
             givenCheck == Slice(d, 9, 11)
             expectedCheck == calculateCheckDigits(firstNine)
         IN  givenCheck = expectedCheck

\* isValid(), d = this.cleaned()
isValid(d) ==
    IF d = <<>> \/ Len(d) # 11 THEN FALSE
    ELSE IF isAllSame(JsStr(d)) THEN FALSE
    ELSE LET firstNine == Slice(d, 0, 9)
             givenCheck == Slice(d, 9, Len(d))
             expectedCheck == calculateCheckDigits(firstNine)
         IN  givenCheck = expectedCheck

\* format with a fault: the last group is cut after one digit
formatShortTail(rawStr, d) ==
    IF Len(d) # 11 THEN rawStr
    ELSE Slice(d, 0, 3) \o <<".">> \o Slice(d, 3, 6) \o <<".">>
         \o Slice(d, 6, 9) \o <<"-">> \o Slice(d, 9, 10)

\* format with a fault: a wrong length is padded with zeros, not returned raw
formatPadded(rawStr, d) ==
    LET p == IF Len(d) < 11 THEN d \o [i \in 1..(11 - Len(d)) |-> "0"] ELSE d
    IN  Slice(p, 0, 3) \o <<".">> \o Slice(p, 3, 6) \o <<".">>
        \o Slice(p, 6, 9) \o <<"-">> \o Slice(p, 9, 11)

\* format(), d = this.cleaned()
format(rawStr, d) ==
    IF Len(d) # 11 THEN rawStr
    ELSE Slice(d, 0, 3) \o <<".">> \o Slice(d, 3, 6) \o <<".">>
         \o Slice(d, 6, 9) \o <<"-">> \o Slice(d, 9, 11)

\* the pattern of isFormatted: "d" stands for \d, any other entry for itself
FormattedPattern ==
    <<"d", "d", "d", ".", "d", "d", "d", ".", "d", "d", "d", "-", "d", "d">>

\* whether s, from position i on, starts with the pattern
MatchesAt(s, i, pattern) ==
    /\ i + Len(pattern) - 1 <= Len(s)
    /\ \A k \in 1..Len(pattern) :
          IF pattern[k] = "d" THEN IsDigitChar(s[i + k - 1])
          ELSE s[i + k - 1] = pattern[k]

\* isFormatted with a fault: the pattern is not anchored (no ^ and $)
isFormattedUnanchored(rawStr) ==
    \E i \in 1..Len(rawStr) : MatchesAt(rawStr, i, FormattedPattern)

\* isFormatted(): /^\d{3}\.\d{3}\.\d{3}-\d{2}$/ on this.raw; ^ and $ (no m flag)
\* are the two ends of the string
isFormatted(rawStr) ==
    /\ MatchesAt(rawStr, 1, FormattedPattern)
    /\ Len(rawStr) = Len(FormattedPattern)

(***************************************************************************)
(* The input values the caller draws from.                                 *)
(***************************************************************************)
\* the array exemplos
exemplos ==
    << <<"1","1","1",".","4","4","4",".","7","7","7","-","3","5">>,
       <<"1","2","3","4","5","6","7","8","9","0","9">>,
       <<"0","0","0","0","0","0","0","0","0","0","0">>,
       <<"5","2","9",".","9","8","2",".","2","4","7","-","2","5">>,
       <<"5","2","9","9","8","2","2","4","7","2","5">>,
       <<"1","1","1","2","2","2","3","3","3","9","6">> >>

Digit == {DigitChars[i] : i \in 1..10}

\* the eleven digits of the examples, and the ten strings of one repeated digit
SeedDigits ==
    { <<"1","1","1","4","4","4","7","7","7","3","5">>,
      <<"1","2","3","4","5","6","7","8","9","0","9">>,
      <<"5","2","9","9","8","2","2","4","7","2","5">>,
      <<"1","1","1","2","2","2","3","3","3","9","6">> }
    \cup { [i \in 1..11 |-> c] : c \in Digit }

\* a seed with its last two digits replaced, or with any one digit replaced
CpfDigits ==
    { [s EXCEPT ![10] = a, ![11] = b] : s \in SeedDigits, a \in Digit, b \in Digit }
    \cup { [s EXCEPT ![p] = a] : s \in SeedDigits, p \in 1..11, a \in Digit }

\* eleven digits as a user types them with the mask
Masked(d) ==
    << d[1], d[2], d[3], ".", d[4], d[5], d[6], ".", d[7], d[8], d[9], "-",
       d[10], d[11] >>

OtherChars == {".", "-", " ", "a", "0", "\n"}

\* a masked seed with one character replaced, removed or added at an end
NearMasked ==
    LET M == { Masked(s) : s \in SeedDigits }
    IN  { [m EXCEPT ![p] = c] : m \in M, p \in 1..14, c \in OtherChars }
        \cup { SubSeq(m, 1, p - 1) \o SubSeq(m, p + 1, 14) : m \in M, p \in 1..14 }
        \cup { m \o <<c>> : m \in M, c \in OtherChars }
        \cup { <<c>> \o m : m \in M, c \in OtherChars }

Alphabet == {"0", "1", "9", ".", "-", "a", " "}

\* every string over Alphabet of at most MaxLen characters
FreeStrings == UNION { [1..n -> Alphabet] : n \in 0..MaxLen }

\* digit strings of every length up to MaxDigitsLen: one digit repeated, then
\* any last digit
DigitRuns ==
    { [i \in 1..n |-> IF i = n THEN b ELSE a] :
          n \in 0..MaxDigitsLen, a \in Digit, b \in Digit }

\* the first nine and the first ten digits of the eleven-digit inputs
Prefixes ==
    { SubSeq(d, 1, 9) : d \in CpfDigits } \cup { SubSeq(d, 1, 10) : d \in CpfDigits }

InputStrings ==
    { exemplos[i] : i \in 1..Len(exemplos) }
    \cup CpfDigits \cup { Masked(d) : d \in CpfDigits } \cup NearMasked
    \cup FreeStrings \cup DigitRuns \cup Prefixes

Inputs ==
    { JsStr(s) : s \in InputStrings }
    \cup { JsNum(n) : n \in (0 - MaxNum)..MaxNum }
    \cup { JsBool(TRUE), JsBool(FALSE), JsNaN, JsNull, JsUndefined, JsBareObject }

(***************************************************************************)
(* The state: one caller, its input value, the CPF object it builds (the   *)
(* fields raw and digits), and the last call it made with its argument and *)
(* return value.                                                           *)
(***************************************************************************)
VARIABLES
    value,        \* the caller's input
    pc,           \* "start", "built" (a CPF exists), "returned" (a static
                  \* call on the input returned), "thrown" (a TypeError)
    raw,          \* this.raw
    digits,       \* this.digits
    call,         \* the name of the last method called
    arg,          \* the argument of the last static call
    factor,       \* the factorStart of the last calculateVerifierDigit call
    ret           \* the value the last call returned

vars == <<value, pc, raw, digits, call, arg, factor, ret>>

Init ==
    /\ value \in Inputs
    /\ pc = "start"
    /\ raw = <<>>
    /\ digits = <<>>
    /\ call = "none"
    /\ arg = JsUndefined
    /\ factor = 0
    /\ ret = JsUndefined

\* new CPF(value)
Constructor ==
    /\ pc = "start"
    /\ call' = "constructor"
    /\ LET v == IF Truthy(value) THEN value ELSE JsStr(<<>>)
       IN  IF StringThrows(v)
           THEN /\ pc' = "thrown"
                /\ UNCHANGED <<raw, digits>>
           ELSE /\ pc' = "built"
                /\ raw' = String(v)
                /\ digits' = onlyDigits(JsStr(String(v)))
    /\ UNCHANGED <<value, arg, factor, ret>>

\* cpf.cleaned()
Cleaned ==
    /\ pc = "built"
    /\ call' = "cleaned"
    /\ ret' = JsStr(digits)
    /\ UNCHANGED <<value, pc, raw, digits, arg, factor>>

\* cpf.isValid()
IsValid ==
    /\ pc = "built"
    /\ call' = "isValid"
    /\ ret' = JsBool(isValid(digits))
    /\ UNCHANGED <<value, pc, raw, digits, arg, factor>>

\* cpf.format()
Format ==
    /\ pc = "built"
    /\ call' = "format"
    /\ ret' = JsStr(format(raw, digits))
    /\ UNCHANGED <<value, pc, raw, digits, arg, factor>>

\* cpf.isFormatted()
IsFormatted ==
    /\ pc = "built"
    /\ call' = "isFormatted"
    /\ ret' = JsBool(isFormatted(raw))
    /\ UNCHANGED <<value, pc, raw, digits, arg, factor>>

\* CPF.onlyDigits(cpf.format()): the digits of what format() just returned
OnlyDigitsOfFormat ==
    /\ pc = "built"
    /\ call = "format"
    /\ call' = "onlyDigits"
    /\ arg' = ret
    /\ ret' = JsStr(onlyDigits(ret))
    /\ UNCHANGED <<value, pc, raw, digits, factor>>

\* CPF.onlyDigits(value)
OnlyDigits ==
    /\ pc = "start"
    /\ call' = "onlyDigits"
    /\ arg' = value
    /\ IF StringThrows(value)
       THEN pc' = "thrown" /\ UNCHANGED ret
       ELSE pc' = "returned" /\ ret' = JsStr(onlyDigits(value))
    /\ UNCHANGED <<value, raw, digits, factor>>

\* CPF.isAllSame(value)
IsAllSame ==
    /\ pc = "start"
    /\ call' = "isAllSame"
    /\ arg' = value
    /\ IF Truthy(value) /\ StringThrows(value)
       THEN pc' = "thrown" /\ UNCHANGED ret
       ELSE pc' = "returned" /\ ret' = JsBool(isAllSame(value))
    /\ UNCHANGED <<value, raw, digits, factor>>

\* CPF.calculateVerifierDigit(value, factorStart), value a string
CalculateVerifierDigit ==
    /\ pc = "start"
    /\ value.kind = "string"
    /\ \E factorStart \in {10, 11} :
          /\ factor' = factorStart
          /\ ret' = calculateVerifierDigit(value.s, factorStart)
    /\ call' = "calculateVerifierDigit"
    /\ arg' = value
    /\ pc' = "returned"
    /\ UNCHANGED <<value, raw, digits>>

\* CPF.calculateCheckDigits(value), value a string
CalculateCheckDigits ==
    /\ pc = "start"
    /\ value.kind = "string"
    /\ call' = "calculateCheckDigits"
    /\ arg' = value
    /\ ret' = JsStr(calculateCheckDigits(value.s))
    /\ pc' = "returned"
    /\ UNCHANGED <<value, raw, digits, factor>>

Next ==
    \/ Constructor
    \/ Cleaned
    \/ IsValid
    \/ Format
    \/ IsFormatted
    \/ OnlyDigitsOfFormat
    \/ OnlyDigits
    \/ IsAllSame
    \/ CalculateVerifierDigit
    \/ CalculateCheckDigits

Spec == Init /\ [][Next]_vars

(***************************************************************************)
(* The check-digit rule as the specification words it, for the claims.     *)
(***************************************************************************)
AllDigits(s) == \A i \in 1..Len(s) : s[i] \in Digit

\* the sum over positions 0..n-1 of digit_i * (w - i), position 0 the leftmost
RECURSIVE WeightedSum(_, _, _)
WeightedSum(d, w, n) ==
    IF n = 0 THEN 0
    ELSE WeightedSum(d, w, n - 1) + DigitValue(d[n]) * (w - (n - 1))

\* CheckDigit(d, w) for a sum that is not negative
CheckDigit(d, w) ==
    LET r == WeightedSum(d, w, Len(d)) % 11
    IN  IF r < 2 THEN 0 ELSE 11 - r

\* the two check digits c1 c2 of nine digits
CheckDigitPair(d9) ==
    LET c1 == CheckDigit(d9, 10)
        c2 == CheckDigit(d9 \o <<DigitChars[c1 + 1]>>, 11)
    IN  <<DigitChars[c1 + 1], DigitChars[c2 + 1]>>

OneDigitRepeated(d) == \E c \in Digit : \A i \in 1..Len(d) : d[i] = c

\* the three conditions of the Validator
ValidCpf(d) ==
    /\ Len(d) = 11
    /\ ~OneDigitRepeated(d)
    /\ <<d[10], d[11]>> = CheckDigitPair(SubSeq(d, 1, 9))

\* out is the characters 0-9 of s, in their order
IsDigitSubsequence(out, s) ==
    LET P == { i \in 1..Len(s) : s[i] \in Digit }
    IN  /\ Len(out) = Cardinality(P)
        /\ \A k \in 1..Len(out) :
              \E i \in P : /\ Cardinality({ j \in P : j <= i }) = k
                           /\ out[k] = s[i]

\* DDD.DDD.DDD-DD and nothing else
HasMaskShape(s) ==
    /\ Len(s) = 14
    /\ \A i \in {1, 2, 3, 5, 6, 7, 9, 10, 11, 13, 14} : s[i] \in Digit
    /\ s[4] = "." /\ s[8] = "." /\ s[12] = "-"

Repeated(c, n) == [i \in 1..n |-> c]

(***************************************************************************)
(* The claims.                                                             *)
(***************************************************************************)
\* C1: isValid() returns true exactly when digits has length 11, is not one
\* digit repeated, and its last two characters are the check digits of its
\* first nine; otherwise it returns false.
C1_IsValidIff ==
    (pc = "built" /\ call = "isValid") => ret = JsBool(ValidCpf(digits))

\* C1 witness: isValid() has returned true for a masked input
C1_Witness ==
    /\ pc = "built" /\ call = "isValid"
    /\ ret = JsBool(TRUE)
    /\ Len(raw) = 14

\* C2: for nine digits d9, calculateCheckDigits(d9) is c1 c2 with
\* c1 = CheckDigit(d9, 10) and c2 = CheckDigit(d9 c1, 11).
C2_CheckDigits ==
    (call = "calculateCheckDigits" /\ Len(arg.s) = 9 /\ AllDigits(arg.s))
        => ret = JsStr(CheckDigitPair(arg.s))

\* C2 witness: calculateCheckDigits("529982247") has returned "25"
C2_Witness ==
    /\ call = "calculateCheckDigits"
    /\ arg = JsStr(<<"5","2","9","9","8","2","2","4","7">>)
    /\ ret = JsStr(<<"2","5">>)

\* C3: calculateVerifierDigit(d, w) is a number in 0..9 for every digit-only
\* d of any length and w in {10, 11}.
C3_VerifierDigitRange ==
    (call = "calculateVerifierDigit" /\ AllDigits(arg.s) /\ factor \in {10, 11})
        => (ret.kind = "number" /\ ret.n \in 0..9)

\* C3 witness: a digit string longer than the starting weight whose weighted
\* sum is negative has been given a verifier digit
C3_Witness ==
    /\ call = "calculateVerifierDigit"
    /\ AllDigits(arg.s)
    /\ Len(arg.s) > factor
    /\ WeightedSum(arg.s, factor, Len(arg.s)) < 0
    /\ ret.kind = "number"

C5_Format ==
    (pc = "built" /\ call = "format")
        => /\ ret = JsStr(IF Len(digits) = 11 THEN Masked(digits) ELSE raw)
           /\ (Len(digits) # 11 /\ value.kind = "string") => ret = value

\* C5 witness: format() has punctuated eleven digits whose checksum is wrong
C5_Witness ==
    /\ pc = "built" /\ call = "format"
    /\ Len(digits) = 11
    /\ ~ValidCpf(digits)
    /\ ret.s # raw

\* C6: the digits of the Identifier built from a string s, and onlyDigits(s),
\* are the characters 0-9 of s in their order; empty, null and undefined
\* input give the empty string.
C6_OnlyDigits ==
    /\ (pc = "built" /\ value.kind = "string")
          => IsDigitSubsequence(digits, value.s)
    /\ (pc = "built" /\ (value \in {JsNull, JsUndefined, JsStr(<<>>)}))
          => digits = <<>>
    /\ (pc = "returned" /\ call = "onlyDigits" /\ arg.kind = "string")
          => (ret.kind = "string" /\ IsDigitSubsequence(ret.s, arg.s))
    /\ (pc = "returned" /\ call = "onlyDigits"
           /\ arg \in {JsNull, JsUndefined, JsStr(<<>>)})
          => ret = JsStr(<<>>)

\* C6 witness: a CPF built from "111.444.777-35" holds the digits 11144477735
C6_Witness ==
    /\ pc = "built"
    /\ value = JsStr(exemplos[1])
    /\ digits = <<"1","1","1","4","4","4","7","7","7","3","5">>

\* C7: isFormatted() returns true exactly when raw is the 14 characters
\* DDD.DDD.DDD-DD, whether or not the check digits are valid.
C7_IsFormatted ==
    (pc = "built" /\ call = "isFormatted") => ret = JsBool(HasMaskShape(raw))

\* C7 witness: isFormatted() has returned true for a raw value that isValid()
\* rejects
C7_Witness ==
    /\ pc = "built" /\ call = "isFormatted"
    /\ ret = JsBool(TRUE)
    /\ ~isValid(digits)

\* C8 as stated: constructing an Identifier from any input value never throws.
C8_NeverThrows == ~(call = "constructor" /\ pc = "thrown")

\* C9: for a valid 11-digit string d, onlyDigits(new CPF(d).format()) is d.
C9_RoundTrip ==
    (pc = "built" /\ call = "onlyDigits" /\ value.kind = "string"
        /\ AllDigits(value.s) /\ ValidCpf(value.s))
        => ret = value

\* C9 witness: the round trip has run for the valid input 52998224725, through
\* the formatted form 529.982.247-25
C9_Witness ==
    /\ pc = "built" /\ call = "onlyDigits"
    /\ value = JsStr(exemplos[5])
    /\ arg = JsStr(exemplos[4])

\* C10: each of the ten strings of one digit repeated eleven times has the
\* right length and the right check digits, and isValid() returns false for it:
\* only the isAllSame check rejects it.
C10_RepeatedDigits ==
    /\ (pc = "built" /\ call = "isValid" /\ digits \in { Repeated(c, 11) : c \in Digit })
          => /\ ret = JsBool(FALSE)
             /\ isAllSame(JsStr(digits))
             /\ Len(digits) = 11
             /\ calculateCheckDigits(Slice(digits, 0, 9)) = Slice(digits, 9, 11)
    /\ \A c \in Digit :
          (call = "calculateCheckDigits" /\ arg = JsStr(Repeated(c, 9)))
              => ret = JsStr(Repeated(c, 2))

\* C10 witness: isValid() has returned false for 77777777777
C10_Witness ==
    /\ pc = "built" /\ call = "isValid"
    /\ digits = Repeated("7", 11)
    /\ ret = JsBool(FALSE)

=============================================================================
